---- MODULE Spec2Model ----
(***************************************************************************)
(* Model of pkg/cfg/cfg.go: the IDPAccount record, its Validate method and  *)
(* the ConfigManager that loads and saves named accounts in one ini file.   *)
(*                                                                          *)
(* The ini file is handled by gopkg.in/ini.v1; the operators LoadSources,   *)
(* NewSection, GetKey, ReflectFrom, MapTo and SaveTo follow that library's  *)
(* behaviour at the call sites of cfg.go.  Text values are plain tokens:    *)
(* quoting, comments and %(key)s interpolation of the ini syntax are not    *)
(* modelled, and the file system is assumed to read and write without       *)
(* error.                                                                   *)
(***************************************************************************)
EXTENDS Integers, Sequences, FiniteSets, TLC

VARIABLES
    file,            \* content of the file at configPath: section name -> (key -> text)
    fileExists,      \* whether the file at configPath exists
    activePrompter,  \* the process-wide prompter set by ValidateAndSetPrompter
    op,              \* the last call made: "none", "validate", "save", "load"
    argName,         \* idpAccountName of the last call
    argAccount,      \* the account passed to the last Validate / SaveIDPAccount
    ret,             \* the error returned by the last call (NoError for nil)
    loaded,          \* the account returned by the last LoadIDPAccount
    onEmpty,         \* the last call was a SaveIDPAccount that found the file without sections
    hadSection,      \* the last call was a SaveIDPAccount that found its section in the file
    pc,              \* per process: position inside a SaveIDPAccount that runs in steps
    procArg,         \* per process: the name and account its SaveIDPAccount was given
    cfgMem,          \* per process: the *ini.File held between LoadSources and SaveTo
    procRet,         \* per process: the error SaveIDPAccount returned
    events           \* order of the file reads and writes of the processes

vars == <<file, fileExists, activePrompter, op, argName, argAccount, ret, loaded,
          onEmpty, hadSection, pc, procArg, cfgMem, procRet, events>>

storeVars == <<file, fileExists, activePrompter, op, argName, argAccount, ret, loaded,
               onEmpty, hadSection>>
procVars == <<pc, procArg, cfgMem, procRet, events>>

----------------------------------------------------------------------------
(* Constants of cfg.go *)

DefaultAmazonWebservicesURN == "urn:amazon:webservices"
DefaultSessionDuration == 3600
DefaultProfile == "saml"

NoError == "<nil>"
NoAccount == "<no account>"
NoSection == "<no section>"

\* ini.DefaultSection: the section every *ini.File holds
DefaultSection == "DEFAULT"

----------------------------------------------------------------------------
(* The IDPAccount struct: fields, their ini keys and their kinds *)

\* field name -> key name of the `ini:"..."` tag
Tag ==
    [ Name |-> "name", AppID |-> "app_id", URL |-> "url", Username |-> "username",
      Provider |-> "provider", BrowserType |-> "browser_type",
      BrowserExecutablePath |-> "browser_executable_path",
      BrowserAutoFill |-> "browser_autofill", MFA |-> "mfa",
      MFAIPAddress |-> "mfa_ip_address", SkipVerify |-> "skip_verify",
      Timeout |-> "timeout", AmazonWebservicesURN |-> "aws_urn",
      SessionDuration |-> "aws_session_duration", Profile |-> "aws_profile",
      ResourceID |-> "resource_id", Subdomain |-> "subdomain", RoleARN |-> "role_arn",
      PolicyFile |-> "policy_file", PolicyARNs |-> "policy_arn_list", Region |-> "region",
      HttpAttemptsCount |-> "http_attempts_count", HttpRetryDelay |-> "http_retry_delay",
      CredentialsFile |-> "credentials_file", SAMLCache |-> "saml_cache",
      SAMLCacheFile |-> "saml_cache_file", TargetURL |-> "target_url",
      DisableRememberDevice |-> "disable_remember_device",
      DisableSessions |-> "disable_sessions", DownloadBrowser |-> "download_browser_driver",
      BrowserDriverDir |-> "browser_driver_dir", Headless |-> "headless",
      Prompter |-> "prompter", KCAuthErrorMessage |-> "kc_auth_error_message",
      KCAuthErrorElement |-> "kc_auth_error_element", KCBroker |-> "kc_broker" ]

FieldNames == DOMAIN Tag

\* fields whose tag carries ",omitempty"
OmitEmpty ==
    { "BrowserType", "BrowserExecutablePath", "BrowserAutoFill", "BrowserDriverDir",
      "KCAuthErrorMessage", "KCAuthErrorElement" }

BoolFields ==
    { "BrowserAutoFill", "SkipVerify", "SAMLCache", "DisableRememberDevice",
      "DisableSessions", "DownloadBrowser", "Headless" }

IntFields == { "Timeout", "SessionDuration" }

StringFields == FieldNames \ (BoolFields \cup IntFields)

\* the zero value of the struct
ZeroAccount ==
    [ f \in FieldNames |->
        IF f \in BoolFields THEN FALSE ELSE IF f \in IntFields THEN 0 ELSE "" ]

NewIDPAccount ==
    [ ZeroAccount EXCEPT !.AmazonWebservicesURN = DefaultAmazonWebservicesURN,
                         !.SessionDuration = DefaultSessionDuration,
                         !.Profile = DefaultProfile ]

----------------------------------------------------------------------------
(* Validate *)

ErrAppID == "app ID empty in idp account"
ErrSubdomain == "subdomain empty in idp account"
ErrResourceID == "Resource ID empty in idp account"
ErrURLEmpty == "URL empty in idp account"
ErrURLParse == "URL parse failed"
ErrProvider == "Provider empty in idp account"
ErrMFA == "MFA empty in idp account"
ErrProfile == "Profile empty in idp account"
ErrInvalidPrompter == "invalid prompter"

\* url.Parse rejects these texts (missing protocol scheme, invalid escape)
UnparsableURLs == { ":bad", "http://h/%zz" }

URLParseFails(u) == u \in UnparsableURLs

\* the prompter registry of pkg/prompter: the names it recognises
RecognizedPrompters == { "", "survey", "pinentry" }

ValidateAndSetPrompter(name) ==
    IF name \in RecognizedPrompters THEN NoError ELSE ErrInvalidPrompter

\* the switch on ia.Provider at the head of Validate
ProviderCheck(ia) ==
    CASE ia.Provider = "OneLogin" ->
            IF ia.AppID = "" THEN ErrAppID
            ELSE IF ia.Subdomain = "" THEN ErrSubdomain
            ELSE NoError
      [] ia.Provider = "F5APM" ->
            IF ia.ResourceID = "" THEN ErrResourceID ELSE NoError
      [] ia.Provider = "AzureAD" ->
            IF ia.AppID = "" THEN ErrAppID ELSE NoError
      [] OTHER -> NoError

\* mutant: the MFA check without the exemption of the Browser provider
MFACheckNoExemption(ia) ==
    IF ia.MFA = "" THEN ErrMFA ELSE NoError

MFACheck(ia) ==
    IF ia.Provider # "Browser" /\ ia.MFA = "" THEN ErrMFA ELSE NoError

\* mutant: the url checks run before the provider switch
ValidateURLFirst(ia) ==
    IF ia.URL = "" THEN ErrURLEmpty
    ELSE IF URLParseFails(ia.URL) THEN ErrURLParse
    ELSE IF ProviderCheck(ia) # NoError THEN ProviderCheck(ia)
    ELSE IF ia.Provider = "" THEN ErrProvider
    ELSE IF MFACheck(ia) # NoError THEN MFACheck(ia)
    ELSE IF ia.Profile = "" THEN ErrProfile
    ELSE ValidateAndSetPrompter(ia.Prompter)

\* the error Validate returns (NoError for nil)
Validate(ia) ==
    IF ProviderCheck(ia) # NoError THEN ProviderCheck(ia)
    ELSE IF ia.URL = "" THEN ErrURLEmpty
    ELSE IF URLParseFails(ia.URL) THEN ErrURLParse
    ELSE IF ia.Provider = "" THEN ErrProvider
    ELSE IF MFACheck(ia) # NoError THEN MFACheck(ia)
    ELSE IF ia.Profile = "" THEN ErrProfile
    ELSE ValidateAndSetPrompter(ia.Prompter)

\* Validate reaches the prompter registry only when every earlier check passed
ReachesPrompter(ia) ==
    /\ ProviderCheck(ia) = NoError
    /\ ia.URL # ""
    /\ ~URLParseFails(ia.URL)
    /\ ia.Provider # ""
    /\ MFACheck(ia) = NoError
    /\ ia.Profile # ""

\* the prompter that is active after Validate(ia) ran
PrompterAfter(ia, current) ==
    IF ReachesPrompter(ia) /\ ia.Prompter \in RecognizedPrompters
    THEN ia.Prompter ELSE current

\* errors.Wrap(err, msg)
Wrap(err, msg) == msg \o ": " \o err

----------------------------------------------------------------------------
(* Text of the values in the file *)

Digit == << "0", "1", "2", "3", "4", "5", "6", "7", "8", "9" >>

\* decimal text of a non-negative int
RECURSIVE Itoa(_)
Itoa(n) == IF n < 10 THEN Digit[n + 1] ELSE Itoa(n \div 10) \o Digit[(n % 10) + 1]

\* the int values of the accounts'Timeout and SessionDuration fields
IntInputs == { 0, 30, DefaultSessionDuration, 7200 }

IsIntText(t) == \E n \in IntInputs : Itoa(n) = t

Atoi(t) == CHOOSE n \in IntInputs : Itoa(n) = t

\* the texts strconv-like parseBool of ini.v1 accepts
TrueTexts == { "1", "t", "T", "TRUE", "true", "True", "YES", "yes", "Yes", "y", "ON", "on", "On" }
FalseTexts == { "0", "f", "F", "FALSE", "false", "False", "NO", "no", "No", "n", "OFF", "off", "Off" }

\* reflectWithProperType: the text ReflectFrom stores for a field value
FormatField(f, v) ==
    IF f \in BoolFields THEN (IF v THEN "true" ELSE "false")
    ELSE IF f \in IntFields THEN Itoa(v)
    ELSE v

\* isEmptyValue: the zero value of the field's kind
IsEmptyValue(f, v) ==
    IF f \in BoolFields THEN v = FALSE
    ELSE IF f \in IntFields THEN v = 0
    ELSE v = ""

\* setWithProperType (non-strict): the field value after MapTo met key text t;
\* an empty text leaves a string field alone, an unparsable text a bool or int
SetWithProperType(f, t, old) ==
    IF f \in BoolFields
    THEN (IF t \in TrueTexts THEN TRUE ELSE IF t \in FalseTexts THEN FALSE ELSE old)
    ELSE IF f \in IntFields
    THEN (IF IsIntText(t) THEN Atoi(t) ELSE old)
    ELSE (IF t = "" THEN old ELSE t)

----------------------------------------------------------------------------
(* The *ini.File: section name -> (key name -> text) *)

\* the part of a section name before its last "." (child sections of ini.v1)
SectionParent(sname) ==
    CASE sname = "b.x" -> "b"
      [] OTHER -> NoSection

\* ini.LoadSources with Loose: an absent file loads as an empty one; the
\* default section always exists
LoadSources(f) ==
    [ s \in DOMAIN f \cup { DefaultSection } |-> IF s \in DOMAIN f THEN f[s] ELSE <<>> ]

\* File.SaveTo: every section is written, an empty default section is not
SaveTo(cfg) ==
    [ s \in { t \in DOMAIN cfg : t # DefaultSection \/ DOMAIN cfg[t] # {} } |-> cfg[s] ]

\* File.NewSection: a section of that name that exists is returned as it is
NewSection(cfg, name) ==
    IF name \in DOMAIN cfg THEN cfg
    ELSE [ s \in DOMAIN cfg \cup { name } |-> IF s \in DOMAIN cfg THEN cfg[s] ELSE <<>> ]

\* File.Section: "" names the default section; a missing section is created
SectionName(name) == IF name = "" THEN DefaultSection ELSE name

Section(cfg, name) == NewSection(cfg, SectionName(name))

\* the nearest existing ancestor of a section, NoSection when there is none
RECURSIVE ExistingAncestor(_, _)
ExistingAncestor(cfg, sname) ==
    LET parent == SectionParent(sname)
    IN  IF parent = NoSection THEN NoSection
        ELSE IF parent \in DOMAIN cfg THEN parent
        ELSE ExistingAncestor(cfg, parent)

\* Section.GetKey: the section whose key answers a lookup of `key` in section
\* sname: the section itself, else its parent sections; NoSection when not found
RECURSIVE GetKey(_, _, _)
GetKey(cfg, sname, key) ==
    IF key \in DOMAIN cfg[sname] THEN sname
    ELSE LET anc == ExistingAncestor(cfg, sname)
         IN  IF anc = NoSection THEN NoSection ELSE GetKey(cfg, anc, key)

\* the fields ReflectFrom writes: omitempty fields holding a zero value are skipped
ReflectedFields(account) ==
    { f \in FieldNames : ~(f \in OmitEmpty /\ IsEmptyValue(f, account[f])) }

\* the section that receives the key of field f: the one GetKey finds, else
\* sname itself through NewKey
KeyTarget(cfg, sname, f) ==
    LET owner == GetKey(cfg, sname, Tag[f])
    IN  IF owner = NoSection THEN sname ELSE owner

\* Section.ReflectFrom on section sname of cfg
ReflectFrom(cfg, sname, account) ==
    [ s \in DOMAIN cfg |->
        LET written == { f \in ReflectedFields(account) : KeyTarget(cfg, sname, f) = s }
            keys == DOMAIN cfg[s] \cup { Tag[f] : f \in written }
        IN  [ k \in keys |->
                IF \E f \in written : Tag[f] = k
                THEN LET f == CHOOSE g \in written : Tag[g] = k
                     IN  FormatField(f, account[f])
                ELSE cfg[s][k] ] ]

\* Section.MapTo on section sname of cfg
MapTo(cfg, sname, account) ==
    [ f \in FieldNames |->
        LET owner == GetKey(cfg, sname, Tag[f])
        IN  IF owner = NoSection THEN account[f]
            ELSE SetWithProperType(f, cfg[owner][Tag[f]], account[f]) ]

\* readAccount
readAccount(idpAccountName, cfg) ==
    MapTo(Section(cfg, idpAccountName), SectionName(idpAccountName), NewIDPAccount)

\* mutant: the account keeps the name MapTo read from the file
StampNameKeep(account, idpAccountName) == account

\* LoadIDPAccount stamps the requested name on the account
StampName(account, idpAccountName) == [ account EXCEPT !.Name = idpAccountName ]

ErrEmptySectionName == "empty section name"

\* mutant: the section is written without validating the account first
SaveResultUnvalidated(idpAccountName, account, f) ==
    IF idpAccountName = ""
    THEN [ err |-> Wrap(ErrEmptySectionName,
                        "Unable to build a new section in configuration file"),
           written |-> FALSE, file |-> f ]
    ELSE [ err |-> IF Validate(account) # NoError
                   THEN Wrap(Validate(account), "Account validation failed")
                   ELSE NoError,
           written |-> TRUE,
           file |-> SaveTo(ReflectFrom(NewSection(LoadSources(f), idpAccountName),
                                       idpAccountName, account)) ]

\* SaveIDPAccount on file content f: the error returned, whether the file was
\* written, and the file content afterwards
SaveResult(idpAccountName, account, f) ==
    IF Validate(account) # NoError
    THEN [ err |-> Wrap(Validate(account), "Account validation failed"),
           written |-> FALSE, file |-> f ]
    ELSE IF idpAccountName = ""
    THEN [ err |-> Wrap(ErrEmptySectionName,
                        "Unable to build a new section in configuration file"),
           written |-> FALSE, file |-> f ]
    ELSE [ err |-> NoError, written |-> TRUE,
           file |-> SaveTo(ReflectFrom(NewSection(LoadSources(f), idpAccountName),
                                       idpAccountName, account)) ]

----------------------------------------------------------------------------
(* Inputs *)

Providers == { "", "OneLogin", "AzureAD", "F5APM", "Okta", "Browser", "KeyCloak" }

GoodURL == "https://example.onelogin.com"

\* the accounts handed to Validate
ValidateInputs ==
    { [ NewIDPAccount EXCEPT !.Provider = p, !.AppID = a, !.Subdomain = s,
                             !.ResourceID = r, !.URL = u, !.MFA = m,
                             !.Profile = pr, !.Prompter = q ] :
        p \in Providers, a \in { "", "123" }, s \in { "", "acme" },
        r \in { "", "res" }, u \in { "", ":bad", GoodURL },
        m \in { "", "push" }, pr \in { "", DefaultProfile }, q \in { "", "bogus" } }

\* the profile names handed to the ConfigManager
ProfileNames == { "", "a", "b", "b.x" }

OneLoginAccount ==
    [ NewIDPAccount EXCEPT !.Provider = "OneLogin", !.URL = GoodURL, !.MFA = "push",
                           !.AppID = "123", !.Subdomain = "acme", !.Name = "a" ]

BrowserAccount ==
    [ NewIDPAccount EXCEPT !.Provider = "Browser", !.URL = "https://idp.example.com",
                           !.BrowserType = "chrome", !.BrowserAutoFill = TRUE,
                           !.Headless = TRUE, !.Timeout = 30 ]

OktaAccount ==
    [ NewIDPAccount EXCEPT !.Provider = "Okta", !.URL = "https://example.okta.com",
                           !.MFA = "Auto", !.AmazonWebservicesURN = "",
                           !.SessionDuration = 7200, !.Profile = "prod",
                           !.Name = "other", !.Prompter = "survey" ]

\* the accounts handed to SaveIDPAccount: three that pass Validate, two that do not
SaveInputs ==
    { OneLoginAccount, BrowserAccount, OktaAccount,
      [ OneLoginAccount EXCEPT !.AppID = "" ],
      [ BrowserAccount EXCEPT !.Prompter = "bogus" ] }

----------------------------------------------------------------------------
(* Initial state *)

Processes == { "p1", "p2" }

Init ==
    /\ file = <<>>
    /\ fileExists = FALSE
    /\ activePrompter = ""
    /\ op = "none"
    /\ argName = NoSection
    /\ argAccount = NoAccount
    /\ ret = NoError
    /\ loaded = NoAccount
    /\ onEmpty = FALSE
    /\ hadSection = FALSE
    /\ pc = [ p \in Processes |-> "idle" ]
    /\ procArg = [ p \in Processes |-> [ name |-> NoSection, account |-> NoAccount ] ]
    /\ cfgMem = [ p \in Processes |-> <<>> ]
    /\ procRet = [ p \in Processes |-> NoError ]
    /\ events = <<>>

----------------------------------------------------------------------------
(* Validate as an operation of its own *)

ValidateCall(ia) ==
    /\ op' = "validate"
    /\ argName' = NoSection
    /\ argAccount' = ia
    /\ ret' = Validate(ia)
    /\ activePrompter' = PrompterAfter(ia, activePrompter)
    /\ loaded' = NoAccount
    /\ onEmpty' = FALSE
    /\ hadSection' = FALSE
    /\ UNCHANGED <<file, fileExists>>
    /\ UNCHANGED procVars

NextValidate == \E ia \in ValidateInputs : ValidateCall(ia)

SpecValidate == Init /\ [][NextValidate]_vars

----------------------------------------------------------------------------
(* The ConfigManager *)

SaveIDPAccount(idpAccountName, account) ==
    LET res == SaveResult(idpAccountName, account, file)
    IN  /\ op' = "save"
        /\ argName' = idpAccountName
        /\ argAccount' = account
        /\ activePrompter' = PrompterAfter(account, activePrompter)
        /\ ret' = res.err
        /\ file' = res.file
        /\ fileExists' = (fileExists \/ res.written)
        /\ loaded' = NoAccount
        /\ onEmpty' = (file = <<>>)
        /\ hadSection' = (idpAccountName \in DOMAIN file)
        /\ UNCHANGED procVars

LoadIDPAccount(idpAccountName) ==
    /\ op' = "load"
    /\ argName' = idpAccountName
    /\ ret' = NoError
    /\ loaded' = StampName(readAccount(idpAccountName, LoadSources(file)), idpAccountName)
    /\ argAccount' = NoAccount
    /\ onEmpty' = FALSE
    /\ hadSection' = FALSE
    /\ UNCHANGED <<file, fileExists, activePrompter>>
    /\ UNCHANGED procVars

Next ==
    \/ \E n \in ProfileNames, a \in SaveInputs : SaveIDPAccount(n, a)
    \/ \E n \in ProfileNames : LoadIDPAccount(n)

Spec == Init /\ [][Next]_vars

----------------------------------------------------------------------------
(* Two invocations of the tool saving to the same file.  SaveIDPAccount reads  *)
(* the whole file (LoadSources) and later writes the whole file (SaveTo);      *)
(* nothing locks the file in between, so the steps of two processes            *)
(* interleave.  Each process has its own prompter, which is left out here.     *)

RaceNames == { "a", "b" }

RaceInputs == { OneLoginAccount, OktaAccount, [ OneLoginAccount EXCEPT !.AppID = "" ] }

\* mutant: the write step works on the file as it is now, not as it was read
CfgAtWriteFresh(p) == LoadSources(file)

\* the *ini.File the write step of process p works on
CfgAtWrite(p) == cfgMem[p]

\* account.Validate() and ini.LoadSources of SaveIDPAccount
SaveBegin(p, idpAccountName, account) ==
    /\ pc[p] = "idle"
    /\ procArg' = [ procArg EXCEPT ![p] = [ name |-> idpAccountName, account |-> account ] ]
    /\ IF Validate(account) # NoError
       THEN /\ pc' = [ pc EXCEPT ![p] = "done" ]
            /\ procRet' = [ procRet EXCEPT ![p] =
                                Wrap(Validate(account), "Account validation failed") ]
            /\ UNCHANGED <<cfgMem, events>>
       ELSE /\ pc' = [ pc EXCEPT ![p] = "loaded" ]
            /\ cfgMem' = [ cfgMem EXCEPT ![p] = LoadSources(file) ]
            /\ events' = Append(events, <<p, "read">>)
            /\ UNCHANGED procRet
    /\ UNCHANGED storeVars

\* cfg.NewSection, newSec.ReflectFrom and cfg.SaveTo of SaveIDPAccount
SaveEnd(p) ==
    /\ pc[p] = "loaded"
    /\ file' = SaveTo(ReflectFrom(NewSection(CfgAtWrite(p), procArg[p].name),
                                  procArg[p].name, procArg[p].account))
    /\ fileExists' = TRUE
    /\ pc' = [ pc EXCEPT ![p] = "done" ]
    /\ procRet' = [ procRet EXCEPT ![p] = NoError ]
    /\ events' = Append(events, <<p, "write">>)
    /\ UNCHANGED <<procArg, cfgMem>>
    /\ UNCHANGED <<activePrompter, op, argName, argAccount, ret, loaded, onEmpty, hadSection>>

NextRace ==
    \/ \E p \in Processes, n \in RaceNames, a \in RaceInputs : SaveBegin(p, n, a)
    \/ \E p \in Processes : SaveEnd(p)

SpecRace == Init /\ [][NextRace]_vars

----------------------------------------------------------------------------
(* The rules of Validate as the specification numbers them *)

RuleViolated(i, ia) ==
    CASE i = 1 -> ia.Provider \in { "OneLogin", "AzureAD" } /\ ia.AppID = ""
      [] i = 2 -> ia.Provider = "OneLogin" /\ ia.Subdomain = ""
      [] i = 3 -> ia.Provider = "F5APM" /\ ia.ResourceID = ""
      [] i = 4 -> ia.URL = ""
      [] i = 5 -> ia.URL \in UnparsableURLs
      [] i = 6 -> ia.Provider = ""
      [] i = 7 -> ia.Provider # "Browser" /\ ia.MFA = ""
      [] i = 8 -> ia.Profile = ""
      [] i = 9 -> ia.Prompter \notin RecognizedPrompters

RuleError ==
    << ErrAppID, ErrSubdomain, ErrResourceID, ErrURLEmpty, ErrURLParse, ErrProvider,
       ErrMFA, ErrProfile, ErrInvalidPrompter >>

Rules == 1..9

ViolatedRules(ia) == { i \in Rules : RuleViolated(i, ia) }

FirstViolated(ia) == CHOOSE i \in ViolatedRules(ia) : \A j \in ViolatedRules(ia) : i <= j

\* C5: Validate reports the error of the lowest-numbered violated rule, and
\* succeeds exactly when no rule is violated.
ValidateFirstFailureWins ==
    op = "validate" =>
        IF ViolatedRules(argAccount) = {}
        THEN ret = NoError
        ELSE ret = RuleError[FirstViolated(argAccount)]

\* a OneLogin account that violates rules 1, 2, 4 and 8 and is told about rule 1
ValidateFirstFailureWinsWitness ==
    /\ op = "validate"
    /\ argAccount.Provider = "OneLogin"
    /\ ViolatedRules(argAccount) = { 1, 2, 4, 8 }
    /\ ret = ErrAppID

\* C6: with an empty MFA field, a Browser account passes when every other rule
\* holds, and an account of any other provider fails whatever its other fields.
ValidateMFAOnlyBrowserExempt ==
    (op = "validate" /\ argAccount.MFA = "") =>
        IF argAccount.Provider = "Browser"
        THEN (ret = NoError) <=> (ViolatedRules(argAccount) \ { 7 } = {})
        ELSE ret # NoError

\* a Browser account without MFA that passes, all other rules holding
ValidateMFAOnlyBrowserExemptWitness ==
    /\ op = "validate"
    /\ argAccount.Provider = "Browser"
    /\ argAccount.MFA = ""
    /\ ViolatedRules(argAccount) = {}
    /\ ret = NoError

----------------------------------------------------------------------------
(* Properties of the ConfigManager *)

\* C1: a SaveIDPAccount whose account fails Validate returns the wrapped
\* validation error and leaves the file exactly as it was.
SaveValidatesBeforeWriting ==
    [][ (op' = "save" /\ Validate(argAccount') # NoError) =>
            /\ ret' = Wrap(Validate(argAccount'), "Account validation failed")
            /\ file' = file
            /\ fileExists' = fileExists ]_vars

\* a rejected save of a name whose section is in the file
SaveValidatesBeforeWritingWitness ==
    /\ op = "save"
    /\ ret = Wrap(ErrAppID, "Account validation failed")
    /\ argName \in DOMAIN file
    /\ hadSection
    /\ file[argName]["provider"] = "Browser"

\* C2: a successful SaveIDPAccount(A, r) leaves every other section B of the
\* file in place with the same keys and values.
SaveKeepsOtherSections ==
    [][ (op' = "save" /\ ret' = NoError) =>
            \A B \in DOMAIN file \ { argName' } :
                B \in DOMAIN file' /\ file'[B] = file[B] ]_vars

PersistedEqual(l, r) == \A f \in FieldNames \ { "Name" } : l[f] = r[f]

\* C3: a successful SaveIDPAccount(P, r) on a file without sections followed
\* by LoadIDPAccount(P) returns r's values in every persisted field and the
\* name P.
SaveLoadRoundTrip ==
    [][ (op = "save" /\ ret = NoError /\ onEmpty /\ op' = "load" /\ argName' = argName) =>
            /\ ret' = NoError
            /\ PersistedEqual(loaded', argAccount)
            /\ loaded'.Name = argName ]_vars

\* C4: LoadIDPAccount of a name that has no section in the file returns no
\* error and the default record stamped with that name.
LoadAbsentGivesDefault ==
    (op = "load" /\ argName \notin DOMAIN file) =>
        /\ ret = NoError
        /\ loaded = [ NewIDPAccount EXCEPT !.Name = argName ]

TextOf(sec, key) == IF key \in DOMAIN sec THEN sec[key] ELSE ""

SectionHasRequired(sec) ==
    /\ TextOf(sec, "provider") # ""
    /\ TextOf(sec, "url") # ""
    /\ TextOf(sec, "aws_profile") # ""
    /\ TextOf(sec, "provider") = "OneLogin" =>
            TextOf(sec, "app_id") # "" /\ TextOf(sec, "subdomain") # ""
    /\ TextOf(sec, "provider") = "AzureAD" => TextOf(sec, "app_id") # ""
    /\ TextOf(sec, "provider") = "F5APM" => TextOf(sec, "resource_id") # ""

AccountHasRequired(ia) ==
    /\ ia.Provider # ""
    /\ ia.URL # ""
    /\ ia.Profile # ""
    /\ ia.Provider = "OneLogin" => (ia.AppID # "" /\ ia.Subdomain # "")
    /\ ia.Provider = "AzureAD" => ia.AppID # ""
    /\ ia.Provider = "F5APM" => ia.ResourceID # ""

\* C7: an account that passed Validate has its provider, url, profile and the
\* fields its provider requires set, and so has every section of the file.
SavedSectionsHaveRequired ==
    /\ (op = "save" /\ ret = NoError) => AccountHasRequired(argAccount)
    /\ \A s \in DOMAIN file : SectionHasRequired(file[s])

\* C9: after a successful SaveIDPAccount(P, r) on a file that held section P,
\* the section holds r alone: the key of every field with r's value, and no
\* key for an omitempty field that is unset in r.
SaveReplacesSection ==
    (op = "save" /\ ret = NoError /\ hadSection) =>
        \A f \in FieldNames :
            IF f \in OmitEmpty /\ IsEmptyValue(f, argAccount[f])
            THEN Tag[f] \notin DOMAIN file[argName]
            ELSE /\ Tag[f] \in DOMAIN file[argName]
                 /\ file[argName][Tag[f]] = FormatField(f, argAccount[f])

\* C10 as stated: the saved section has no key that carries the record's name,
\* and a loaded record is named after the requested profile.
NameIsNotPersisted ==
    /\ (op = "save" /\ ret = NoError) => "name" \notin DOMAIN file[argName]
    /\ op = "load" => loaded.Name = argName

\* C10 amended: the record's name is persisted under the key "name" (the key a
\* lookup in section P finds holds r's name after a successful save), and a
\* loaded record is nevertheless named after the requested profile.
NameIsPersistedLoadStamps ==
    /\ (op = "save" /\ ret = NoError) =>
            LET cfg == LoadSources(file)
                owner == GetKey(cfg, argName, "name")
            IN  owner # NoSection /\ cfg[owner]["name"] = argAccount.Name
    /\ op = "load" => loaded.Name = argName

\* a load of a section whose name key holds another name than the profile's
NameIsPersistedLoadStampsWitness ==
    /\ op = "load"
    /\ argName \in DOMAIN file
    /\ "name" \in DOMAIN file[argName]
    /\ file[argName]["name"] = "other"
    /\ argName = "a"
    /\ loaded.Name = "a"
    /\ loaded.Provider = "Okta"

----------------------------------------------------------------------------
(* Properties of two concurrent saves *)

EventAt(p, kind) == CHOOSE i \in 1..Len(events) : events[i] = <<p, kind>>

BothSaved ==
    /\ \A p \in Processes : pc[p] = "done" /\ procRet[p] = NoError
    /\ procArg["p1"].name # procArg["p2"].name

LastWriter == events[Len(events)][1]

FirstWriter == CHOOSE p \in Processes : p # LastWriter

\* the last writer read the file before the first writer wrote it
ReadsOverlapWrites == EventAt(LastWriter, "read") < EventAt(FirstWriter, "write")

\* C8: when two successful saves of different profiles interleave, the file
\* holds only the last writer's section; when they run one after the other it
\* holds both.
RacingSavesLoseFirstWrite ==
    BothSaved =>
        IF ReadsOverlapWrites
        THEN DOMAIN file = { procArg[LastWriter].name }
        ELSE DOMAIN file = { procArg["p1"].name, procArg["p2"].name }

\* both saves returned nil and the file holds one section only
RacingSavesLoseFirstWriteWitness ==
    /\ BothSaved
    /\ ReadsOverlapWrites
    /\ Cardinality(DOMAIN file) = 1

====
